---- MODULE Spec2Model ----
(***************************************************************************)
(* A model of the sysctl.conf parser (src/src/parser/mod.rs) and of its    *)
(* schema validator (src/src/parser/schema.rs).                            *)
(*                                                                         *)
(* Strings are sequences of one-character strings, so that trimming,       *)
(* splitting on '=' and '.', and number parsing are computed character by  *)
(* character.  A table (HashMap<String, String>) is a function from keys   *)
(* to values; the empty table is <<>>.                                     *)
(***************************************************************************)
EXTENDS Integers, Sequences, FiniteSets, TLC

VARIABLES
    pc,           \* "idle" | "parsing" | "json" | "validating" | "done"
    settings,     \* SysctlConfig.settings
    input,        \* the lines of the reader handed to the last parse call
    line_number,  \* parse's local line counter
    result,       \* what the last parse call returned
    pre,          \* the table as it was when the last parse call began
    calls,        \* [parse |-> number of parse calls, set |-> number of set calls]
    tree,         \* to_json's `result` value under construction
    pending,      \* keys the iteration over settings has not yielded yet
    applied,      \* keys in the order the iteration yielded them
    schema,       \* Schema.schema
    unchecked,    \* schema keys the iteration over the schema has not yielded yet
    errors,       \* validate's `errors` vector
    verdict       \* what validate returned

vars == <<pc, settings, input, line_number, result, pre, calls,
          tree, pending, applied, schema, unchecked, errors, verdict>>

parserVars == <<settings, input, line_number, result, pre, calls>>
jsonVars == <<tree, pending, applied>>
schemaVars == <<schema, unchecked, errors, verdict>>

----------------------------------------------------------------------------
(* Bounds of the model. *)

MaxLineLen == 3
MaxLines == 3
MaxLongLineLen == 4
MaxLongLines == 2
MaxKeyLen == 3
MaxEntries == 3
MaxFields == 2
MaxOptionalDepth == 2
MaxValueLen == 3
MaxParses == 1
MaxSets == 1
MaxSetArgLen == 1
MaxSessionLen == 2
MaxSessionLines == 2

SeqsUpTo(S, n) == UNION {[1..k -> S] : k \in 0..n}

LineChars == {"a", "=", "#", " "}
Lines == SeqsUpTo(LineChars, MaxLineLen)
LongLines == SeqsUpTo(LineChars, MaxLongLineLen)
Inputs == SeqsUpTo(Lines, MaxLines) \cup SeqsUpTo(LongLines, MaxLongLines)
SessionLines == SeqsUpTo(LineChars, MaxSessionLen)
SessionInputs == SeqsUpTo(SessionLines, MaxSessionLines)
SetArgs == SeqsUpTo(LineChars, MaxSetArgLen)

RECURSIVE SubsetsUpTo(_, _)
SubsetsUpTo(S, n) ==
    IF n = 0 THEN {{}}
    ELSE LET R == SubsetsUpTo(S, n - 1) IN R \cup {r \cup {x} : r \in R, x \in S}

KeyChars == {"a", "b", "."}
JsonKeys == SeqsUpTo(KeyChars, MaxKeyLen)
JsonValues == {<<"1">>, <<"2">>}
FieldKeys == {<<"a">>, <<"b">>, <<"c">>}
IntKey == <<"n">>

V_yes == <<"y", "e", "s">>
V_ON == <<"O", "N">>
V_m42 == <<"-", "4", "2">>
V_4p2 == <<"4", ".", "2">>
V_0 == <<"0">>
V_abc == <<"a", "b", "c">>
FieldValues == {V_yes, V_ON, V_m42, V_4p2, V_0, V_abc}

V_max == <<"9","2","2","3","3","7","2","0","3","6","8","5","4","7","7","5","8","0","7">>
V_over == <<"9","2","2","3","3","7","2","0","3","6","8","5","4","7","7","5","8","0","8">>
V_forty_two == <<"f","o","r","t","y","-","t","w","o">>
IntChars == {"0", "7", "-", "+", " ", ".", ",", "a"}
IntValues ==
    SeqsUpTo(IntChars, MaxValueLen)
        \cup {V_m42, V_4p2, V_forty_two, V_max, V_over,
              <<"-">> \o V_max, <<"-">> \o V_over, <<"-">> \o [V_over EXCEPT ![19] = "9"],
              <<"+">> \o V_max, <<"+">> \o V_over,
              <<"0", "0">> \o V_max, <<"-", "0">> \o V_over, V_max \o <<"0">>,
              <<"1">> \o Tail(V_max), <<" ">> \o V_max}

JsonTables == UNION {[K -> JsonValues] : K \in SubsetsUpTo(JsonKeys, MaxEntries)}

----------------------------------------------------------------------------
(* Strings. *)

IsWhitespace(c) == c \in {" ", "\t"}

RECURSIVE TrimStart(_)
TrimStart(s) ==
    IF s # <<>> /\ IsWhitespace(Head(s)) THEN TrimStart(Tail(s)) ELSE s

RECURSIVE TrimEnd(_)
TrimEnd(s) ==
    IF s # <<>> /\ IsWhitespace(s[Len(s)])
    THEN TrimEnd(SubSeq(s, 1, Len(s) - 1))
    ELSE s

trim(s) == TrimEnd(TrimStart(s))

RECURSIVE Find(_, _, _)
Find(s, c, i) ==
    IF i > Len(s) THEN 0
    ELSE IF s[i] = c THEN i
    ELSE Find(s, c, i + 1)

RECURSIVE FindLast(_, _, _)
FindLast(s, c, i) ==
    IF i < 1 THEN 0
    ELSE IF s[i] = c THEN i
    ELSE FindLast(s, c, i - 1)

SplitAt(s, i) ==
    IF i = 0 THEN <<s>>
    ELSE <<SubSeq(s, 1, i - 1), SubSeq(s, i + 1, Len(s))>>

----------------------------------------------------------------------------
(* SysctlConfig: new, set, parse. *)

EmptyTable == <<>>

insert(table, key, value) ==
    [k \in DOMAIN table \cup {key} |-> IF k = key THEN value ELSE table[k]]

get(table, key) == table[key]

len(table) == Cardinality(DOMAIN table)

NoResult == [kind |-> "none", line |-> 0, message |-> ""]
OkResult == [kind |-> "ok", line |-> 0, message |-> ""]
ParseError(n, m) == [kind |-> "parse", line |-> n, message |-> m]
IoError == [kind |-> "io", line |-> 0, message |-> ""]

MsgInvalidFormat == "invalid format, expected 'key=value'"
MsgEmptyKey == "empty key not allowed"

\* A variant that treats '#' anywhere in the line as the start of a comment.
should_skip_line_inline(line) == line = <<>> \/ Find(line, "#", 1) # 0

should_skip_line(line) == line = <<>> \/ Head(line) = "#"

\* line.splitn(2, '='): at most two parts, split at the first '='.
\* A variant that splits at the last '=' instead.
splitn_last(line) == SplitAt(line, FindLast(line, "=", Len(line)))

splitn(line) == SplitAt(line, Find(line, "=", 1))

\* A variant that keeps the first value written for a key.
parse_line_keep_first(table, line, n) ==
    LET parts == splitn(line) IN
    IF Len(parts) # 2
    THEN [settings |-> table, err |-> ParseError(n, MsgInvalidFormat)]
    ELSE LET key == trim(parts[1])
             value == trim(parts[2])
         IN IF key = <<>>
            THEN [settings |-> table, err |-> ParseError(n, MsgEmptyKey)]
            ELSE [settings |-> IF key \in DOMAIN table THEN table
                               ELSE insert(table, key, value),
                  err |-> NoResult]

\* A variant that numbers lines from 0.
parse_line_zero_indexed(table, line, n) ==
    LET parts == splitn(line) IN
    IF Len(parts) # 2
    THEN [settings |-> table, err |-> ParseError(n - 1, MsgInvalidFormat)]
    ELSE LET key == trim(parts[1])
             value == trim(parts[2])
         IN IF key = <<>>
            THEN [settings |-> table, err |-> ParseError(n - 1, MsgEmptyKey)]
            ELSE [settings |-> insert(table, key, value), err |-> NoResult]

parse_line(table, line, n) ==
    LET parts == splitn(line) IN
    IF Len(parts) # 2
    THEN [settings |-> table, err |-> ParseError(n, MsgInvalidFormat)]
    ELSE LET key == trim(parts[1])
             value == trim(parts[2])
         IN IF key = <<>>
            THEN [settings |-> table, err |-> ParseError(n, MsgEmptyKey)]
            ELSE [settings |-> insert(table, key, value), err |-> NoResult]

InitParser ==
    /\ settings = EmptyTable
    /\ input = <<>>
    /\ line_number = 0
    /\ result = NoResult
    /\ pre = EmptyTable
    /\ calls = [parse |-> 0, set |-> 0]

InitJson ==
    /\ tree = <<>>
    /\ pending = {}
    /\ applied = <<>>

InitSchema ==
    /\ schema = <<>>
    /\ unchecked = {}
    /\ errors = <<>>
    /\ verdict = "none"

Init ==
    /\ pc = "idle"
    /\ InitParser
    /\ InitJson
    /\ InitSchema

Set ==
    /\ pc = "idle"
    /\ calls.set < MaxSets
    /\ \E key \in SetArgs, value \in SetArgs :
           settings' = insert(settings, key, value)
    /\ calls' = [calls EXCEPT !.set = @ + 1]
    /\ UNCHANGED <<pc, input, line_number, result, pre, jsonVars, schemaVars>>

ParseBegin(Ins) ==
    /\ pc = "idle"
    /\ calls.parse < MaxParses
    /\ pc' = "parsing"
    /\ line_number' = 0
    /\ \E reader \in Ins : input' = reader
    /\ result' = NoResult
    /\ pre' = settings
    /\ calls' = [calls EXCEPT !.parse = @ + 1]
    /\ UNCHANGED <<settings, jsonVars, schemaVars>>

ParseLine ==
    /\ pc = "parsing"
    /\ line_number < Len(input)
    /\ LET n == line_number + 1
           trimmed == trim(input[n])
       IN /\ line_number' = n
          /\ IF should_skip_line(trimmed)
             THEN UNCHANGED <<pc, settings, result>>
             ELSE LET r == parse_line(settings, trimmed, n) IN
                  /\ settings' = r.settings
                  /\ IF r.err.kind = "none"
                     THEN UNCHANGED <<pc, result>>
                     ELSE pc' = "idle" /\ result' = r.err
    /\ UNCHANGED <<input, pre, calls, jsonVars, schemaVars>>

\* `line_result?` when the read of the next line fails
ParseIoError ==
    /\ pc = "parsing"
    /\ line_number <= Len(input)
    /\ line_number' = line_number + 1
    /\ pc' = "idle"
    /\ result' = IoError
    /\ UNCHANGED <<settings, input, pre, calls, jsonVars, schemaVars>>

ParseEof ==
    /\ pc = "parsing"
    /\ line_number = Len(input)
    /\ pc' = "idle"
    /\ result' = OkResult
    /\ UNCHANGED <<settings, input, line_number, pre, calls, jsonVars, schemaVars>>

ParseFile == ParseBegin(Inputs)

ParseSessionFile == ParseBegin(SessionInputs)

Next ==
    \/ ParseFile
    \/ ParseLine
    \/ ParseIoError
    \/ ParseEof

Spec == Init /\ [][Next]_vars

NextSession ==
    \/ Set
    \/ ParseSessionFile
    \/ ParseLine
    \/ ParseIoError
    \/ ParseEof

SpecSession == Init /\ [][NextSession]_vars

----------------------------------------------------------------------------
(* SysctlConfig::to_json.  A serde_json Value is a record: an object holds  *)
(* its members in `fields` (a function from member names), a string its     *)
(* text in `str`.                                                           *)

JsonNull == [kind |-> "null", fields |-> <<>>, str |-> <<>>]
JsonString(v) == [kind |-> "string", fields |-> <<>>, str |-> v]
JsonObject(f) == [kind |-> "object", fields |-> f, str |-> <<>>]

is_object(v) == v.kind = "object"

\* value[k] read: Null when value is no object or has no member k
Index(v, k) ==
    IF is_object(v) /\ k \in DOMAIN v.fields THEN v.fields[k] ELSE JsonNull

\* value[k] = x on an object: the member is inserted or replaced
IndexAssign(v, k, x) == JsonObject(insert(v.fields, k, x))

\* key.split('.')
RECURSIVE split(_, _)
split(s, c) ==
    LET i == Find(s, c, 1) IN
    IF i = 0 THEN <<s>>
    ELSE <<SubSeq(s, 1, i - 1)>> \o split(SubSeq(s, i + 1, Len(s)), c)

\* The walk of set_nested_value from `current`, with keys[i..] still to go.
\* A variant that makes a fresh object at every intermediate step.
RECURSIVE walk_always_fresh(_, _, _, _)
walk_always_fresh(current, keys, i, value) ==
    IF i = Len(keys)
    THEN IndexAssign(current, keys[i], JsonString(value))
    ELSE IndexAssign(current, keys[i],
                     walk_always_fresh(JsonObject(<<>>), keys, i + 1, value))

\* A variant that gives up on a key whose path runs through a non-object.
RECURSIVE walk_keep_leaf(_, _, _, _)
walk_keep_leaf(current, keys, i, value) ==
    IF i = Len(keys)
    THEN IF is_object(Index(current, keys[i])) THEN current
         ELSE IndexAssign(current, keys[i], JsonString(value))
    ELSE LET child == Index(current, keys[i]) IN
         IF child.kind = "string" THEN current
         ELSE IndexAssign(current, keys[i],
                          walk_keep_leaf(IF is_object(child) THEN child
                                         ELSE JsonObject(<<>>),
                                         keys, i + 1, value))

RECURSIVE walk(_, _, _, _)
walk(current, keys, i, value) ==
    IF i = Len(keys)
    THEN IndexAssign(current, keys[i], JsonString(value))
    ELSE LET child == IF is_object(Index(current, keys[i]))
                      THEN Index(current, keys[i])
                      ELSE JsonObject(<<>>)
         IN IndexAssign(current, keys[i], walk(child, keys, i + 1, value))

set_nested_value_always_fresh(json, key, value) ==
    walk_always_fresh(json, split(key, "."), 1, value)

set_nested_value_keep_leaf(json, key, value) ==
    walk_keep_leaf(json, split(key, "."), 1, value)

set_nested_value(json, key, value) == walk(json, split(key, "."), 1, value)

InitToJson ==
    /\ pc = "idle"
    /\ settings \in JsonTables
    /\ input = <<>>
    /\ line_number = 0
    /\ result = NoResult
    /\ pre = EmptyTable
    /\ calls = [parse |-> 0, set |-> 0]
    /\ InitJson
    /\ InitSchema

ToJsonBegin ==
    /\ pc = "idle"
    /\ pc' = "json"
    /\ tree' = JsonObject(<<>>)
    /\ pending' = DOMAIN settings
    /\ applied' = <<>>
    /\ UNCHANGED <<parserVars, schemaVars>>

ToJsonEntry ==
    /\ pc = "json"
    /\ \E key \in pending :
          /\ tree' = set_nested_value(tree, key, settings[key])
          /\ pending' = pending \ {key}
          /\ applied' = Append(applied, key)
    /\ UNCHANGED <<pc, parserVars, schemaVars>>

ToJsonReturn ==
    /\ pc = "json"
    /\ pending = {}
    /\ pc' = "done"
    /\ UNCHANGED <<parserVars, jsonVars, schemaVars>>

NextToJson ==
    \/ ToJsonBegin
    \/ ToJsonEntry
    \/ ToJsonReturn

SpecToJson == InitToJson /\ [][NextToJson]_vars

----------------------------------------------------------------------------
(* Schema::validate.  A SchemaType is the sequence of its tags from the     *)
(* outside in: Optional(Optional(Int)) is <<"optional", "optional", "int">>. *)
(* A SchemaField is [field_type, required].                                 *)

UpperCase == <<"A", "B", "C", "D", "E", "F", "G", "H", "I", "J", "K", "L", "M",
               "N", "O", "P", "Q", "R", "S", "T", "U", "V", "W", "X", "Y", "Z">>
LowerCase == <<"a", "b", "c", "d", "e", "f", "g", "h", "i", "j", "k", "l", "m",
               "n", "o", "p", "q", "r", "s", "t", "u", "v", "w", "x", "y", "z">>

to_lowercase(s) ==
    [i \in 1..Len(s) |->
        IF \E j \in 1..26 : UpperCase[j] = s[i]
        THEN LowerCase[CHOOSE j \in 1..26 : UpperCase[j] = s[i]]
        ELSE s[i]]

Digits == <<"0", "1", "2", "3", "4", "5", "6", "7", "8", "9">>

IsDigit(c) == \E d \in 1..10 : Digits[d] = c

\* char::to_digit(10)
to_digit(c) == (CHOOSE d \in 1..10 : Digits[d] = c) - 1

\* An i64 accumulator is kept as the decimal digits of its magnitude, without
\* leading zeros (zero is <<>>): 2^63 does not fit the model checker's integers.
I64MaxMagnitude == <<9, 2, 2, 3, 3, 7, 2, 0, 3, 6, 8, 5, 4, 7, 7, 5, 8, 0, 7>>
I64MinMagnitude == <<9, 2, 2, 3, 3, 7, 2, 0, 3, 6, 8, 5, 4, 7, 7, 5, 8, 0, 8>>

RECURSIVE MagLess(_, _, _)
MagLess(a, b, i) ==
    IF i > Len(a) THEN FALSE
    ELSE IF a[i] # b[i] THEN a[i] < b[i]
    ELSE MagLess(a, b, i + 1)

\* a > b
MagGreater(a, b) == Len(a) > Len(b) \/ (Len(a) = Len(b) /\ MagLess(b, a, 1))

MagTimes10(m) == IF m = <<>> THEN <<>> ELSE Append(m, 0)

\* m + d for m a multiple of 10
MagPlusDigit(m, d) ==
    IF m = <<>> THEN (IF d = 0 THEN <<>> ELSE <<d>>)
    ELSE [m EXCEPT ![Len(m)] = d]

\* The digit loop of i64::from_str: checked_mul(10), then checked_add (or
\* checked_sub for a negative number); "overflow" and "invalid" are the errors.
RECURSIVE accumulate(_, _, _, _)
accumulate(digits, i, acc, limit) ==
    IF i > Len(digits) THEN "ok"
    ELSE IF ~IsDigit(digits[i]) THEN "invalid"
    ELSE LET shifted == MagTimes10(acc)
             next == MagPlusDigit(shifted, to_digit(digits[i]))
         IN IF MagGreater(shifted, limit) \/ MagGreater(next, limit)
            THEN "overflow"
            ELSE accumulate(digits, i + 1, next, limit)

\* A variant whose digit loop wraps instead of checking for overflow.
RECURSIVE accumulate_wrapping(_, _, _, _)
accumulate_wrapping(digits, i, acc, limit) ==
    IF i > Len(digits) THEN "ok"
    ELSE IF ~IsDigit(digits[i]) THEN "invalid"
    ELSE accumulate_wrapping(digits, i + 1, acc, limit)

parse_i64_wrapping(src) ==
    IF src = <<>> THEN "empty"
    ELSE IF src = <<"+">> \/ src = <<"-">> THEN "invalid"
    ELSE IF src[1] = "+" THEN accumulate_wrapping(Tail(src), 1, <<>>, I64MaxMagnitude)
    ELSE IF src[1] = "-" THEN accumulate_wrapping(Tail(src), 1, <<>>, I64MinMagnitude)
    ELSE accumulate_wrapping(src, 1, <<>>, I64MaxMagnitude)

\* value.parse::<i64>(): "ok" or the kind of error
parse_i64(src) ==
    IF src = <<>> THEN "empty"
    ELSE IF src = <<"+">> \/ src = <<"-">> THEN "invalid"
    ELSE IF src[1] = "+" THEN accumulate(Tail(src), 1, <<>>, I64MaxMagnitude)
    ELSE IF src[1] = "-" THEN accumulate(Tail(src), 1, <<>>, I64MinMagnitude)
    ELSE accumulate(src, 1, <<>>, I64MaxMagnitude)

\* the first position from i on that holds no digit
RECURSIVE SkipDigits(_, _)
SkipDigits(s, i) ==
    IF i <= Len(s) /\ IsDigit(s[i]) THEN SkipDigits(s, i + 1) ELSE i

\* value.parse::<f64>().is_ok(): an optional sign, then inf, infinity or nan
\* in any case, or digits with an optional '.' (a digit on at least one side)
\* and an optional exponent e[sign]digits
parse_f64_is_ok(src) ==
    LET body == IF src # <<>> /\ src[1] \in {"+", "-"} THEN Tail(src) ELSE src
        n == Len(body)
        dot == SkipDigits(body, 1)
        hasDot == dot <= n /\ body[dot] = "."
        exp == IF hasDot THEN SkipDigits(body, dot + 1) ELSE dot
        mantissa == IF hasDot THEN exp - 2 ELSE exp - 1
        expDigits == IF exp + 1 <= n /\ body[exp + 1] \in {"+", "-"}
                     THEN exp + 2 ELSE exp + 1
    IN \/ to_lowercase(body) \in {<<"i", "n", "f">>, <<"n", "a", "n">>,
                                  <<"i", "n", "f", "i", "n", "i", "t", "y">>}
       \/ /\ mantissa > 0
          /\ \/ exp > n
             \/ /\ body[exp] \in {"e", "E"}
                /\ expDigits <= n
                /\ SkipDigits(body, expDigits) > n

BoolWords == {<<"t", "r", "u", "e">>, <<"f", "a", "l", "s", "e">>, <<"1">>, <<"0">>,
              <<"o", "n">>, <<"o", "f", "f">>, <<"y", "e", "s">>, <<"n", "o">>}

NoError == [kind |-> "none", key |-> <<>>, expected |-> "", got |-> <<>>]
MissingKey(key) == [kind |-> "MissingKey", key |-> key, expected |-> "", got |-> <<>>]
Validation(key, expected, got) ==
    [kind |-> "Validation", key |-> key, expected |-> expected, got |-> got]

RECURSIVE validate_value(_, _, _)
validate_value(key, value, expected_type) ==
    CASE Head(expected_type) = "string" -> NoError
      [] Head(expected_type) = "bool" ->
            IF to_lowercase(value) \in BoolWords THEN NoError
            ELSE Validation(key, "boolean", value)
      [] Head(expected_type) = "int" ->
            IF parse_i64(value) = "ok" THEN NoError
            ELSE Validation(key, "integer", value)
      [] Head(expected_type) = "float" ->
            IF parse_f64_is_ok(value) THEN NoError
            ELSE Validation(key, "float", value)
      [] Head(expected_type) = "optional" ->
            validate_value(key, value, Tail(expected_type))

\* The body of validate's loop, for one schema entry.
\* A variant that stops checking once an error has been found.
check_field_fail_fast(errs, config, key, field) ==
    IF errs # <<>> THEN errs
    ELSE IF key \in DOMAIN config
    THEN LET e == validate_value(key, config[key], field.field_type) IN
         IF e.kind # "none" THEN Append(errs, e) ELSE errs
    ELSE IF field.required THEN Append(errs, MissingKey(key)) ELSE errs

check_field(errs, config, key, field) ==
    IF key \in DOMAIN config
    THEN LET e == validate_value(key, config[key], field.field_type) IN
         IF e.kind # "none" THEN Append(errs, e) ELSE errs
    ELSE IF field.required THEN Append(errs, MissingKey(key)) ELSE errs

BaseTypes == {"string", "bool", "int", "float"}

Optional(n, base) == [i \in 1..(n + 1) |-> IF i <= n THEN "optional" ELSE base]

\* each base type, bare and under one Optional layer
FieldTypes == {Optional(0, base) : base \in BaseTypes}
                  \cup {Optional(1, base) : base \in BaseTypes}

SchemaFields == [field_type : FieldTypes, required : BOOLEAN]

Schemas == UNION {[K -> SchemaFields] : K \in SubsetsUpTo(FieldKeys, MaxFields)}

ConfigTables == UNION {[K -> FieldValues] : K \in SUBSET FieldKeys}

InitValidateWith(configs, schemas) ==
    /\ pc = "idle"
    /\ settings \in configs
    /\ schema \in schemas
    /\ input = <<>>
    /\ line_number = 0
    /\ result = NoResult
    /\ pre = EmptyTable
    /\ calls = [parse |-> 0, set |-> 0]
    /\ InitJson
    /\ unchecked = {}
    /\ errors = <<>>
    /\ verdict = "none"

InitValidate == InitValidateWith(ConfigTables, Schemas)

InitValidateInt ==
    InitValidateWith(
        {[k \in {IntKey} |-> v] : v \in IntValues},
        {[k \in {IntKey} |-> [field_type |-> Optional(n, "int"), required |-> r]] :
             n \in 0..MaxOptionalDepth, r \in BOOLEAN})

ValidateBegin ==
    /\ pc = "idle"
    /\ pc' = "validating"
    /\ errors' = <<>>
    /\ unchecked' = DOMAIN schema
    /\ UNCHANGED <<parserVars, jsonVars, schema, verdict>>

ValidateField ==
    /\ pc = "validating"
    /\ \E key \in unchecked :
          /\ errors' = check_field(errors, settings, key, schema[key])
          /\ unchecked' = unchecked \ {key}
    /\ UNCHANGED <<pc, parserVars, jsonVars, schema, verdict>>

ValidateReturn ==
    /\ pc = "validating"
    /\ unchecked = {}
    /\ pc' = "done"
    /\ verdict' = IF errors = <<>> THEN "ok" ELSE "err"
    /\ UNCHANGED <<parserVars, jsonVars, schema, unchecked, errors>>

NextValidate ==
    \/ ValidateBegin
    \/ ValidateField
    \/ ValidateReturn

SpecValidate == InitValidate /\ [][NextValidate]_vars

SpecValidateInt == InitValidateInt /\ [][NextValidate]_vars

----------------------------------------------------------------------------
(* The parser's properties.  The vocabulary below describes lines by their  *)
(* characters, independently of trim, splitn and parse_line above.          *)

Blank(s) == \A i \in 1..Len(s) : IsWhitespace(s[i])

InkAt(s) == {i \in 1..Len(s) : ~IsWhitespace(s[i])}

SetMin(S) == CHOOSE x \in S : \A y \in S : x <= y
SetMax(S) == CHOOSE x \in S : \A y \in S : x >= y

\* s without its leading and trailing whitespace
Strip(s) == IF Blank(s) THEN <<>> ELSE SubSeq(s, SetMin(InkAt(s)), SetMax(InkAt(s)))

Count(s, c) == Cardinality({i \in 1..Len(s) : s[i] = c})

HasEq(s) == Count(s, "=") > 0

IsComment(s) == ~Blank(s) /\ s[SetMin(InkAt(s))] = "#"

Skipped(s) == Blank(s) \/ IsComment(s)

FirstEq(s) == SetMin({i \in 1..Len(s) : s[i] = "="})

KeyOf(s) == Strip(SubSeq(s, 1, FirstEq(s) - 1))

ValueOf(s) == Strip(SubSeq(s, FirstEq(s) + 1, Len(s)))

Assigns(s) == ~Skipped(s) /\ HasEq(s) /\ KeyOf(s) # <<>>

NoEqLine(s) == ~Skipped(s) /\ ~HasEq(s)

EmptyKeyLine(s) == ~Skipped(s) /\ HasEq(s) /\ KeyOf(s) = <<>>

WellFormed(s) == Skipped(s) \/ Assigns(s)

\* the lines among the first m that assign key
Writers(in, m, key) == {i \in 1..m : Assigns(in[i]) /\ KeyOf(in[i]) = key}

KeysWritten(in, m) == {KeyOf(in[i]) : i \in {j \in 1..m : Assigns(in[j])}}

\* base overwritten by the assignments of the first m lines, the last one winning
TableAfter(base, in, m) ==
    [key \in DOMAIN base \cup KeysWritten(in, m) |->
        IF Writers(in, m, key) = {} THEN base[key]
        ELSE ValueOf(in[SetMax(Writers(in, m, key))])]

Returned == pc = "idle" /\ result.kind # "none"

Failed == Returned /\ result.kind = "parse"

\* parse has returned and no read of its input failed
ReadThrough == Returned /\ result.kind # "io"

\* C1: when parse fails, the table is the one the caller had before the call
\* (no entry of the well-formed lines before the malformed one is visible).
C1_NoPartialTable == Failed => settings = pre

\* k is the first non-skipped line of the input that contains no '='
FirstNoEq(k) ==
    /\ k \in 1..Len(input)
    /\ NoEqLine(input[k])
    /\ \A j \in 1..(k - 1) : ~NoEqLine(input[j])

\* C2 as stated: if the first non-skipped line with no '=' is physical line k,
\* parse returns the invalid-format error at line k and nothing after line k
\* contributes to the table.
C2_FirstNoEqLineReported ==
    ReadThrough =>
        \A k \in 1..Len(input) :
            FirstNoEq(k) =>
                /\ result = ParseError(k, MsgInvalidFormat)
                /\ settings = TableAfter(pre, input, k - 1)

\* C2 amended: the same, provided no non-skipped line before line k has an
\* empty key (such a line is the first malformed one and is reported instead).
C2_FirstMalformedNoEqLineReported ==
    ReadThrough =>
        \A k \in 1..Len(input) :
            (FirstNoEq(k) /\ \A j \in 1..(k - 1) : ~EmptyKeyLine(input[j])) =>
                /\ result = ParseError(k, MsgInvalidFormat)
                /\ settings = TableAfter(pre, input, k - 1)

C2_Witness ==
    /\ Failed
    /\ result = ParseError(2, MsgInvalidFormat)
    /\ Len(input) = 3
    /\ Skipped(input[1])
    /\ FirstNoEq(2)
    /\ Assigns(input[3])
    /\ KeyOf(input[3]) \notin DOMAIN settings

\* C3: a well-formed input parsed into an empty table gives one entry per
\* distinct trimmed key, holding the trimmed value of the last line that
\* assigns the key.
C3_LastWriteWins ==
    (ReadThrough /\ pre = EmptyTable /\ \A i \in 1..Len(input) : WellFormed(input[i])) =>
        /\ result = OkResult
        /\ DOMAIN settings = KeysWritten(input, Len(input))
        /\ len(settings) = Cardinality(KeysWritten(input, Len(input)))
        /\ \A key \in KeysWritten(input, Len(input)) :
               get(settings, key) =
                   ValueOf(input[SetMax(Writers(input, Len(input), key))])

C3_Witness ==
    /\ Returned
    /\ result = OkResult
    /\ pre = EmptyTable
    /\ len(settings) = 2
    /\ \E i, j \in 1..Len(input) :
           /\ i < j
           /\ Assigns(input[i]) /\ Assigns(input[j])
           /\ KeyOf(input[i]) = KeyOf(input[j])
           /\ ValueOf(input[i]) # ValueOf(input[j])
           /\ settings[KeyOf(input[j])] = ValueOf(input[j])

\* the step in which parse handles the next line of its input
ReadsLine ==
    pc = "parsing" /\ line_number' = line_number + 1 /\ result'.kind # "io"

\* C5: every key of the table is non-empty and every key and value is trimmed.
C5_KeysAndValuesTrimmed ==
    \A key \in DOMAIN settings :
        /\ key # <<>>
        /\ Strip(key) = key
        /\ Strip(settings[key]) = settings[key]

\* C8: a line that is blank, or whose first non-blank character is '#', leaves
\* the table unchanged and parsing goes on; a '#' elsewhere is kept in the key
\* or the value.
C8_SkippedLinesAreInert ==
    [][ReadsLine =>
         LET line == input[line_number'] IN
         /\ Skipped(line) =>
                settings' = settings /\ pc' = "parsing" /\ result' = result
         /\ Assigns(line) =>
                /\ KeyOf(line) \in DOMAIN settings'
                /\ Count(KeyOf(line), "#") + Count(settings'[KeyOf(line)], "#")
                       = Count(line, "#")]_vars

C8_Witness ==
    /\ Returned
    /\ result = OkResult
    /\ Len(input) = 3
    /\ Assigns(input[1])
    /\ Skipped(input[2])
    /\ Assigns(input[3])
    /\ len(settings) = 2
    /\ \E key \in DOMAIN settings : Count(settings[key], "#") > 0

\* C9: a non-skipped line with an '=' is split at its first '='; the key is the
\* trimmed text before it and the value the trimmed text after it.  An empty
\* key fails at that line with "empty key not allowed" and inserts nothing; an
\* empty value is stored as the empty string.
C9_SplitAtFirstEq ==
    [][(ReadsLine /\ ~Skipped(input[line_number']) /\ HasEq(input[line_number'])) =>
         LET line == input[line_number'] IN
         IF KeyOf(line) = <<>>
         THEN /\ result' = ParseError(line_number', MsgEmptyKey)
              /\ pc' = "idle"
              /\ settings' = settings
         ELSE /\ DOMAIN settings' = DOMAIN settings \cup {KeyOf(line)}
              /\ settings'[KeyOf(line)] = ValueOf(line)
              /\ \A key \in DOMAIN settings \ {KeyOf(line)} :
                     settings'[key] = settings[key]
              /\ pc' = "parsing"
              /\ result' = result]_vars

C9_Witness ==
    /\ Failed
    /\ result = ParseError(3, MsgEmptyKey)
    /\ \E key \in DOMAIN settings : Count(settings[key], "=") > 0
    /\ \E key \in DOMAIN settings : settings[key] = <<>>

----------------------------------------------------------------------------
(* The tree builder's properties.  A key's path is described by the         *)
(* positions of its dots, independently of split above.                     *)

\* the positions that delimit the segments of s: its dots and both ends
Delims(s) == {0, Len(s) + 1} \cup {i \in 1..Len(s) : s[i] = "."}

Nth(S, j) == CHOOSE d \in S : Cardinality({e \in S : e < d}) = j - 1

\* the dot-separated segments of s
Path(s) ==
    [j \in 1..(Cardinality(Delims(s)) - 1) |->
        SubSeq(s, Nth(Delims(s), j) + 1, Nth(Delims(s), j + 1) - 1)]

IsPrefix(p, q) == Len(p) <= Len(q) /\ SubSeq(q, 1, Len(p)) = p

IsStrictPrefix(p, q) == Len(p) < Len(q) /\ IsPrefix(p, q)

Colliding(K) ==
    \E k1, k2 \in K : k1 # k2 /\ IsPrefix(Path(k1), Path(k2))

\* the node of tree t at path p, Null when there is none
RECURSIVE NodeAt(_, _)
NodeAt(t, p) ==
    IF p = <<>> THEN t
    ELSE IF t.kind = "object" /\ Head(p) \in DOMAIN t.fields
         THEN NodeAt(t.fields[Head(p)], Tail(p))
         ELSE JsonNull

\* the tree that holds one string leaf only, at path p below its root
RECURSIVE Chain(_, _)
Chain(p, v) ==
    IF p = <<>> THEN JsonString(v)
    ELSE JsonObject([seg \in {Head(p)} |-> Chain(Tail(p), v)])

\* the tree of a table with non-colliding keys, read off the table: the node
\* at path p is the leaf of the key whose path is p, or else an object with a
\* member for every segment that continues p towards some key
RECURSIVE Subtree(_, _)
Subtree(table, p) ==
    IF \E k \in DOMAIN table : Path(k) = p
    THEN JsonString(table[CHOOSE k \in DOMAIN table : Path(k) = p])
    ELSE JsonObject(
             [seg \in {Path(k)[Len(p) + 1] :
                          k \in {x \in DOMAIN table : IsStrictPrefix(p, Path(x))}}
                  |-> Subtree(table, Append(p, seg))])

\* the number of string leaves of t
RECURSIVE Leaves(_)
RECURSIVE SumLeaves(_, _)
SumLeaves(f, D) ==
    IF D = {} THEN 0
    ELSE LET k == CHOOSE x \in D : TRUE IN Leaves(f[k]) + SumLeaves(f, D \ {k})
Leaves(t) ==
    IF t.kind = "string" THEN 1
    ELSE IF t.kind = "object" THEN SumLeaves(t.fields, DOMAIN t.fields)
    ELSE 0

\* every node below t is a string or a non-empty object
RECURSIVE LeavesAreStrings(_)
LeavesAreStrings(t) ==
    \/ t.kind = "string"
    \/ /\ t.kind = "object"
       /\ DOMAIN t.fields # {}
       /\ \A k \in DOMAIN t.fields : LeavesAreStrings(t.fields[k])

\* C7: for a table with pairwise non-colliding keys, whatever the order in
\* which the entries are applied, to_json returns the same tree, which holds
\* exactly one string leaf per entry, at the path of the entry's key.
C7_NonCollidingOrderIrrelevant ==
    (pc = "done" /\ ~Colliding(DOMAIN settings)) =>
        /\ tree = Subtree(settings, <<>>)
        /\ \A key \in DOMAIN settings :
               NodeAt(tree, Path(key)) = JsonString(settings[key])
        /\ Leaves(tree) = len(settings)

C7_Witness ==
    /\ pc = "done"
    /\ ~Colliding(DOMAIN settings)
    /\ len(settings) = 3
    /\ \E k1, k2 \in DOMAIN settings :
           /\ k1 # k2
           /\ Len(Path(k1)) = 2
           /\ Len(Path(k2)) = 2
           /\ Path(k1)[1] = Path(k2)[1]
           /\ \E i, j \in 1..3 : i < j /\ applied[i] = k2 /\ applied[j] = k1
           /\ settings[k1] # settings[k2]
    /\ tree = Subtree(settings, <<>>)

\* the step in which to_json applies the entry of key
Applies(key) == pc = "json" /\ applied' = Append(applied, key)

\* C10: for every table the tree has an object root and string leaves, and the
\* later-applied key wins a contested node: a key applied over a string on its
\* way turns that node into a fresh object holding only its own leaf, and a key
\* applied where a subtree stands replaces the subtree by its string leaf.
C10_LaterAppliedKeyWins ==
    /\ [](pc \in {"json", "done"} =>
            /\ is_object(tree)
            /\ \A k \in DOMAIN tree.fields : LeavesAreStrings(tree.fields[k]))
    /\ [][\A key \in DOMAIN settings :
            Applies(key) =>
                LET p == Path(key) IN
                /\ NodeAt(tree', p) = JsonString(settings[key])
                /\ \A n \in 1..(Len(p) - 1) :
                       NodeAt(tree, SubSeq(p, 1, n)).kind = "string" =>
                           NodeAt(tree', SubSeq(p, 1, n)) =
                               Chain(SubSeq(p, n + 1, Len(p)), settings[key])]_vars

\* both orders in one run: a prefix key applied over the longer key's subtree,
\* and a longer key applied over a prefix key's leaf
C10_Witness ==
    /\ pc = "done"
    /\ \E i, j \in 1..Len(applied) :
           /\ i < j
           /\ IsStrictPrefix(Path(applied[i]), Path(applied[j]))
           /\ NodeAt(tree, Path(applied[i])) =
                  Chain(SubSeq(Path(applied[j]), Len(Path(applied[i])) + 1,
                               Len(Path(applied[j]))),
                        settings[applied[j]])
    /\ \E i, j \in 1..Len(applied) :
           /\ i < j
           /\ IsStrictPrefix(Path(applied[j]), Path(applied[i]))

----------------------------------------------------------------------------
(* The validator's properties. *)

\* the type under its Optional layers
BaseOf(t) == t[Len(t)]

\* which of the sample values each base type admits
Fits(v, base) ==
    CASE base = "string" -> TRUE
      [] base = "bool" -> v \in {V_yes, V_ON, V_0}
      [] base = "int" -> v \in {V_m42, V_0}
      [] base = "float" -> v \in {V_m42, V_4p2, V_0}

MissingRequired(key) == key \notin DOMAIN settings /\ schema[key].required

Mismatched(key) ==
    key \in DOMAIN settings /\ ~Fits(settings[key], BaseOf(schema[key].field_type))

Offending == {key \in DOMAIN schema : MissingRequired(key) \/ Mismatched(key)}

ErrorsFor(key) == {i \in 1..Len(errors) : errors[i].key = key}

\* C4: validate reports exactly one error for each schema field that is missing
\* and required (MissingKey) or present with a value of the wrong type
\* (Validation), and no other error; it returns Ok iff there is none.
C4_AllViolationsReported ==
    pc = "done" =>
        /\ Len(errors) = Cardinality(Offending)
        /\ \A i \in 1..Len(errors) : errors[i].key \in Offending
        /\ \A key \in Offending :
               /\ Cardinality(ErrorsFor(key)) = 1
               /\ \A i \in ErrorsFor(key) :
                      errors[i].kind =
                          IF MissingRequired(key) THEN "MissingKey" ELSE "Validation"
        /\ verdict = "ok" <=> Offending = {}

C4_Witness ==
    /\ pc = "done"
    /\ verdict = "err"
    /\ Len(errors) = 2
    /\ \A i \in 1..2 : errors[i].kind = "MissingKey"
    /\ errors[1].key # errors[2].key
    /\ \E key \in DOMAIN settings : key \notin DOMAIN schema /\ settings[key] = V_abc

\* the magnitude written by the digit characters ds is at most the one written
\* by limit
AtMost(ds, limit) ==
    LET zeros == {i \in 0..Len(ds) : \A j \in 1..i : ds[j] = "0"}
        sig == SubSeq(ds, SetMax(zeros) + 1, Len(ds))
    IN \/ Len(sig) < Len(limit)
       \/ /\ Len(sig) = Len(limit)
          /\ \/ sig = limit
             \/ \E i \in 1..Len(sig) :
                   /\ to_digit(sig[i]) < to_digit(limit[i])
                   /\ \A j \in 1..(i - 1) : sig[j] = limit[j]

\* v is a decimal numeral of [-2^63, 2^63 - 1] with an optional sign among signs
DecimalI64(v, signs) ==
    LET signed == v # <<>> /\ v[1] \in signs
        ds == IF signed THEN Tail(v) ELSE v
    IN /\ ds # <<>>
       /\ \A i \in 1..Len(ds) : IsDigit(ds[i])
       /\ AtMost(ds, IF signed /\ v[1] = "-" THEN V_over ELSE V_max)

IntFieldChecked ==
    /\ pc = "done"
    /\ DOMAIN schema = {IntKey}
    /\ BaseOf(schema[IntKey].field_type) = "int"
    /\ IntKey \in DOMAIN settings

\* the int field's value is accepted when ok holds, and else earns one
\* Validation error for its key
IntAcceptedIff(ok) ==
    IntFieldChecked =>
        IF ok
        THEN verdict = "ok" /\ errors = <<>>
        ELSE /\ verdict = "err"
             /\ Len(errors) = 1
             /\ errors[1] = Validation(IntKey, "integer", settings[IntKey])

\* C6 as stated: a present value of an Int field, under any number of Optional
\* layers, is accepted iff it is a non-empty string of decimal digits with an
\* optional leading '-' only, whose value lies in [-2^63, 2^63 - 1]; any other
\* value yields one Validation error for the key.
C6_IntMinusSignOnly == IntAcceptedIff(DecimalI64(settings[IntKey], {"-"}))

\* C6 amended: the optional leading sign may be '-' or '+'.
C6_IntOptionalSign == IntAcceptedIff(DecimalI64(settings[IntKey], {"-", "+"}))

C6_Witness ==
    /\ IntFieldChecked
    /\ Len(schema[IntKey].field_type) = 3
    /\ settings[IntKey] = <<"-">> \o V_over
    /\ verdict = "ok"

====
